---- MODULE Spec2Model ----
(***************************************************************************)
(* Hostel administration backend (Flask + SQLAlchemy): rooms, students,    *)
(* fee payments, employees, salary payments and the expense ledger.        *)
(* Every request handler is one atomic action (serialized access): it      *)
(* reads the committed tables, stages its writes in the request's session  *)
(* and either commits them together or rolls all of them back.             *)
(***************************************************************************)
EXTENDS Integers, Sequences, FiniteSets, TLC

VARIABLES rooms, students, fee_records, employees, salary_records, expenses,
          current_user, request, response, in_flight, registrations

vars == <<rooms, students, fee_records, employees, salary_records, expenses,
          current_user, request, response, in_flight, registrations>>

(***************************************************************************)
(* Bounds of the model.                                                    *)
(***************************************************************************)
\* largest primary key a student row may get
MaxStudentId == 4
\* largest primary key a fee record may get
MaxFeeRecordId == 2
\* largest number of data rows in one uploaded sheet
MaxRows == 2
\* largest primary key a salary record may get
MaxSalaryId == 3
\* largest primary key an expense may get
MaxExpenseId == 3
\* largest primary key an employee may get
MaxEmployeeId == 4
\* number of clients whose requests may be in flight at once
MaxInFlight == 2
\* number of admin accounts in the admin table
NumAdmins == 2
\* largest primary key a registration may get
MaxRegistrationId == 2

(***************************************************************************)
(* Program constants.                                                      *)
(***************************************************************************)
MinRoomId == 1
MaxRoomId == 18
LastSmallRoom == 14
SmallCapacity == 3
LargeCapacity == 4

None == "None"
NoDate == <<0, 0, 0>>
Anonymous == 0

(***************************************************************************)
(* Generic helpers: primary keys, sums.                                    *)
(***************************************************************************)
SetMax(S) == CHOOSE x \in S : \A y \in S : y <= x

\* SQLite INTEGER PRIMARY KEY without AUTOINCREMENT: largest rowid + 1
NextId(table) == IF table = {} THEN 1 ELSE SetMax({r.id : r \in table}) + 1

RECURSIVE SumAmounts(_)
SumAmounts(records) ==
    IF records = {} THEN 0
    ELSE LET r == CHOOSE x \in records : TRUE
         IN  r.amount + SumAmounts(records \ {r})

(***************************************************************************)
(* Responses: the handler that answered, the HTTP status, the error tag.   *)
(***************************************************************************)
NoSummary == [total_processed |-> 0, success_count |-> 0, errors |-> << >>]

Resp(op, code, msg) == [op |-> op, code |-> code, msg |-> msg, summary |-> NoSummary]

\* the request being answered: the handler, the id in its URL (0 if none) and
\* its body
Req(op, id, data) == [op |-> op, id |-> id, data |-> data]

\* @login_required with login_view set: an anonymous request is redirected
\* to the login page (302) before the handler runs
Authenticated == current_user # Anonymous

(***************************************************************************)
(* bootstrap_data: seed rooms 1..18 and three employees, skipping what is  *)
(* already there.                                                          *)
(***************************************************************************)
SeedCapacity(i) == IF i <= LastSmallRoom THEN SmallCapacity ELSE LargeCapacity

\* a seeding that adds every room without looking for it first
RECURSIVE SeedRooms_NoLookup(_, _)
SeedRooms_NoLookup(rs, i) ==
    IF i > MaxRoomId THEN rs
    ELSE SeedRooms_NoLookup(rs \cup {[id |-> NextId(rs), room_number |-> i,
                                      capacity |-> SeedCapacity(i)]}, i + 1)

RECURSIVE SeedRooms(_, _)
SeedRooms(rs, i) ==
    IF i > MaxRoomId THEN rs
    ELSE IF \E r \in rs : r.room_number = i
         THEN SeedRooms(rs, i + 1)
         ELSE SeedRooms(rs \cup {[id |-> NextId(rs), room_number |-> i,
                                  capacity |-> SeedCapacity(i)]}, i + 1)

SeedEmployeeList ==
    << [name |-> "M Bilal", position |-> "Manager", base_salary |-> 50000],
       [name |-> "Ishfaq Hussain", position |-> "Cook", base_salary |-> 30000],
       [name |-> "Abdul Waheed", position |-> "Cook", base_salary |-> 20000] >>

RECURSIVE SeedEmployees(_, _)
SeedEmployees(es, k) ==
    IF k > Len(SeedEmployeeList) THEN es
    ELSE IF \E e \in es : e.name = SeedEmployeeList[k].name
         THEN SeedEmployees(es, k + 1)
         ELSE SeedEmployees(es \cup {[id |-> NextId(es),
                                      name |-> SeedEmployeeList[k].name,
                                      position |-> SeedEmployeeList[k].position,
                                      base_salary |-> SeedEmployeeList[k].base_salary,
                                      status |-> "active"]}, k + 1)

bootstrap_data ==
    /\ rooms' = SeedRooms(rooms, MinRoomId)
    /\ employees' = SeedEmployees(employees, 1)
    /\ response' = Resp("bootstrap_data", 0, "ok")
    /\ UNCHANGED <<in_flight, registrations>>
    /\ request' = Req("bootstrap_data", 0, None)
    /\ UNCHANGED <<students, fee_records, salary_records, expenses, current_user>>

(***************************************************************************)
(* Rooms and occupancy.                                                    *)
(***************************************************************************)
\* Room.query.get(room_id): lookup by primary key
RoomExists(room_id) == \E r \in rooms : r.id = room_id
RoomGet(room_id) == CHOOSE r \in rooms : r.id = room_id

\* a status-filtered count: only active students take a seat
RoomStudentsIn_ActiveOnly(studs, room_id) ==
    {s \in studs : s.room_id = room_id /\ s.status = "active"}

\* room.students: every student row of the table whose room_id is the room's id
RoomStudentsIn(studs, room_id) == {s \in studs : s.room_id = room_id}

RoomStudents(room_id) == RoomStudentsIn(students, room_id)

\* an upper limit that lets room 19 through
RoomIdOutOfRange_OffByOne(room_id) == room_id < MinRoomId \/ room_id > MaxRoomId + 1

RoomIdOutOfRange(room_id) == room_id < MinRoomId \/ room_id > MaxRoomId

\* a strict comparison: a room at capacity still takes one more
RoomIsFull_Strict(room_id) ==
    Cardinality(RoomStudents(room_id)) > RoomGet(room_id).capacity

RoomIsFull(room_id) ==
    Cardinality(RoomStudents(room_id)) >= RoomGet(room_id).capacity

NewStudent(name, fee, room_id) ==
    [id |-> NextId(students), name |-> name, fee |-> fee, room_id |-> room_id,
     status |-> "active", fee_status |-> "unpaid", last_fee_payment |-> NoDate]

(***************************************************************************)
(* POST /api/students                                                      *)
(***************************************************************************)
\* data.get(k) is falsy for a missing key, "" and 0; the model writes a
\* missing name as "" and a missing fee or room_id as 0
api_students_POST_outcome(data) ==
    IF data.name = "" \/ data.fee = 0 \/ data.room_id = 0
    THEN Resp("api_students", 400, "required")
    ELSE IF RoomIdOutOfRange(data.room_id)
    THEN Resp("api_students", 400, "room_range")
    ELSE IF ~RoomExists(data.room_id)
    THEN Resp("api_students", 404, "room_not_found")
    ELSE IF RoomIsFull(data.room_id)
    THEN Resp("api_students", 400, "room_full")
    ELSE Resp("api_students", 201, "ok")

api_students_POST(data) ==
    LET r == api_students_POST_outcome(data) IN
    /\ response' = r
    /\ UNCHANGED <<in_flight, registrations>>
    /\ request' = Req("api_students_POST", 0, data)
    /\ students' = IF r.code = 201
                   THEN students \cup {NewStudent(data.name, data.fee, data.room_id)}
                   ELSE students
    /\ UNCHANGED <<rooms, fee_records, employees, salary_records, expenses,
                   current_user>>

(***************************************************************************)
(* PUT /api/students/<id>                                                  *)
(***************************************************************************)
StudentExists(student_id) == \E s \in students : s.id = student_id
StudentGet(student_id) == CHOOSE s \in students : s.id = student_id

\* a room check that asks for a free seat even in the student's own room
api_update_student_room_check_Always(student, room_id) ==
    IF RoomIdOutOfRange(room_id) THEN "room_range"
    ELSE IF ~RoomExists(room_id) THEN "room_not_found"
    ELSE IF RoomIsFull(room_id) THEN "room_full"
    ELSE "ok"

\* the room check of the PUT handler; "ok" lets the handler go on
api_update_student_room_check(student, room_id) ==
    IF RoomIdOutOfRange(room_id) THEN "room_range"
    ELSE IF ~RoomExists(room_id) THEN "room_not_found"
    ELSE IF student.room_id # room_id /\ RoomIsFull(room_id) THEN "room_full"
    ELSE "ok"

\* the student as the handler has changed it when it reaches the commit
api_update_student_staged(student, data) ==
    [student EXCEPT
        !.name = IF "name" \in data.keys THEN data.name ELSE @,
        !.fee = IF "fee" \in data.keys THEN data.fee ELSE @,
        !.room_id = IF "room_id" \in data.keys THEN data.room_id ELSE @,
        !.status = IF "status" \in data.keys THEN data.status ELSE @]

api_update_student_PUT_outcome(student_id, data) ==
    IF ~StudentExists(student_id)
    THEN Resp("api_update_student", 500, "not_found")
    ELSE LET chk == IF "room_id" \in data.keys
                    THEN api_update_student_room_check(StudentGet(student_id),
                                                       data.room_id)
                    ELSE "ok"
         IN  IF chk = "room_not_found" THEN Resp("api_update_student", 404, chk)
             ELSE IF chk # "ok" THEN Resp("api_update_student", 400, chk)
             ELSE Resp("api_update_student", 200, "ok")

\* an early return that commits what the handler had assigned by then
api_update_student_returned_Committed(student, data) ==
    [student EXCEPT
        !.name = IF "name" \in data.keys THEN data.name ELSE @,
        !.fee = IF "fee" \in data.keys THEN data.fee ELSE @]

\* the row after an early return: the handler leaves without commit, and
\* the name and fee it had assigned are discarded with the session when the
\* request ends
api_update_student_returned(student, data) == student

api_update_student_PUT(student_id, data) ==
    LET r == api_update_student_PUT_outcome(student_id, data) IN
    /\ response' = r
    /\ UNCHANGED <<in_flight, registrations>>
    /\ request' = Req("api_update_student_PUT", student_id, data)
    /\ students' = IF r.code = 200
                   THEN (students \ {StudentGet(student_id)})
                        \cup {api_update_student_staged(StudentGet(student_id), data)}
                   ELSE IF StudentExists(student_id)
                   THEN (students \ {StudentGet(student_id)})
                        \cup {api_update_student_returned(StudentGet(student_id), data)}
                   ELSE students
    /\ UNCHANGED <<rooms, fee_records, employees, salary_records, expenses,
                   current_user>>

(***************************************************************************)
(* DELETE /api/students/<id>                                               *)
(***************************************************************************)
\* a lookup that fetches one record only
StudentFeeRecords_First(student_id) ==
    {f \in fee_records :
        /\ f.student_id = student_id
        /\ \A g \in fee_records : g.student_id = student_id => f.id <= g.id}

\* FeeRecord.query.filter_by(student_id=student_id).all()
StudentFeeRecords(student_id) == {f \in fee_records : f.student_id = student_id}

api_update_student_DELETE(student_id) ==
    /\ UNCHANGED <<in_flight, registrations>>
    /\ request' = Req("api_update_student_DELETE", student_id, None)
    /\ IF ~StudentExists(student_id)
       THEN /\ response' = Resp("api_update_student", 500, "not_found")
            /\ UNCHANGED <<students, fee_records>>
       ELSE /\ response' = Resp("api_update_student", 200, "deleted")
            /\ fee_records' = fee_records \ StudentFeeRecords(student_id)
            /\ students' = students \ {StudentGet(student_id)}
    /\ UNCHANGED <<rooms, employees, salary_records, expenses, current_user>>

(***************************************************************************)
(* POST /enroll (legacy): the constructor is given room_number, a          *)
(* read-only property of Student, so it raises and the handler rolls back. *)
(***************************************************************************)
enroll_student ==
    /\ response' = Resp("enroll_student", 500, "exception")
    /\ UNCHANGED <<in_flight, registrations>>
    /\ request' = Req("enroll_student", 0, None)
    /\ UNCHANGED <<rooms, students, fee_records, employees, salary_records,
                   expenses, current_user>>

(***************************************************************************)
(* POST /api/students/bulk-upload: the sheet arrives as parsed rows        *)
(* (name, fee, room_id); a missing name is "".                             *)
(***************************************************************************)
\* the first check a row fails, or "ok"; studs is the table as committed by
\* the rows before it
bulk_row_check(row, studs, seen_names) ==
    IF row.name = "" THEN "name is required"
    ELSE IF row.name \in seen_names THEN "duplicate name within file"
    ELSE IF \E s \in studs : s.name = row.name
    THEN "student with this name already exists"
    ELSE IF row.fee <= 0 THEN "fee must be greater than 0"
    ELSE IF RoomIdOutOfRange(row.room_id) THEN "room_id must be between 1 and 18"
    ELSE IF ~RoomExists(row.room_id) THEN "room not found"
    ELSE IF Cardinality(RoomStudentsIn(studs, row.room_id))
              >= RoomGet(row.room_id).capacity
    THEN "room is full"
    ELSE "ok"

BulkStudent(row, studs) ==
    [id |-> NextId(studs), name |-> row.name, fee |-> row.fee,
     room_id |-> row.room_id, status |-> "active", fee_status |-> "unpaid",
     last_fee_payment |-> NoDate]

\* row_num = idx + 2: the header is row 1
bulk_row_num(idx) == idx + 2

\* a loop that stops at the first row that fails
RECURSIVE bulk_rows_Abort(_, _, _)
bulk_rows_Abort(rows, idx, acc) ==
    IF idx >= Len(rows) THEN acc
    ELSE LET row == rows[idx + 1]
             chk == bulk_row_check(row, acc.students, acc.seen_names)
         IN  IF chk = "ok"
             THEN bulk_rows_Abort(rows, idx + 1,
                    [acc EXCEPT
                       !.total_processed = @ + 1,
                       !.students = @ \cup {BulkStudent(row, acc.students)},
                       !.success_count = @ + 1,
                       !.seen_names = @ \cup {row.name}])
             ELSE [acc EXCEPT
                       !.total_processed = @ + 1,
                       !.errors = Append(@, [row_num |-> bulk_row_num(idx), msg |-> chk])]

\* the loop over df.iterrows(): idx is the 0-based index of the row, acc the
\* loop's variables and the student table after the commits so far
RECURSIVE bulk_rows(_, _, _)
bulk_rows(rows, idx, acc) ==
    IF idx >= Len(rows) THEN acc
    ELSE LET row == rows[idx + 1]
             row_num == bulk_row_num(idx)
             chk == bulk_row_check(row, acc.students, acc.seen_names)
         IN  IF chk = "ok"
             THEN bulk_rows(rows, idx + 1,
                    [acc EXCEPT
                       !.total_processed = @ + 1,
                       !.students = @ \cup {BulkStudent(row, acc.students)},
                       !.success_count = @ + 1,
                       !.seen_names = @ \cup {row.name}])
             ELSE bulk_rows(rows, idx + 1,
                    [acc EXCEPT
                       !.total_processed = @ + 1,
                       !.errors = Append(@, [row_num |-> row_num, msg |-> chk])])

bulk_result(rows) ==
    bulk_rows(rows, 0, [total_processed |-> 0, success_count |-> 0,
                        errors |-> << >>, seen_names |-> {},
                        students |-> students])

bulk_upload_students(rows) ==
    /\ UNCHANGED <<in_flight, registrations>>
    /\ request' = Req("bulk_upload_students", 0, rows)
    /\ IF ~Authenticated
       THEN /\ response' = Resp("bulk_upload_students", 302, "login_required")
            /\ students' = students
       ELSE LET res == bulk_result(rows) IN
            /\ students' = res.students
            /\ response' = [op |-> "bulk_upload_students", code |-> 200, msg |-> "ok",
                            summary |-> [total_processed |-> res.total_processed,
                                         success_count |-> res.success_count,
                                         errors |-> res.errors]]
    /\ UNCHANGED <<rooms, fee_records, employees, salary_records, expenses,
                   current_user>>

(***************************************************************************)
(* Dates: request dates are "%Y-%m-%d" strings; a parsed date is           *)
(* <<year, month, day>>.                                                   *)
(***************************************************************************)
DateStrings == {"2024-01-05", "2024-01-20", "2024-02-05", "2025-01-05"}

\* datetime.strptime(s, "%Y-%m-%d") on the strings the model sends; any
\* other string raises ValueError
strptime_ok(s) == s \in DateStrings

strptime(s) ==
    CASE s = "2024-01-05" -> <<2024, 1, 5>>
      [] s = "2024-01-20" -> <<2024, 1, 20>>
      [] s = "2024-02-05" -> <<2024, 2, 5>>
      [] s = "2025-01-05" -> <<2025, 1, 5>>

\* strftime("%Y-%m"): the month key, kept as <<year, month>>
strftime_Ym(d) == <<d[1], d[2]>>

\* extract("month", date) and extract("year", date)
extract_month(d) == d[2]
extract_year(d) == d[1]

(***************************************************************************)
(* Fee status.                                                             *)
(***************************************************************************)
\* a filter that forgets the year
MonthFeeRecords_NoYear(records, student_id, month, year) ==
    {f \in records : /\ f.student_id = student_id
                     /\ extract_month(f.date_paid) = month}

\* FeeRecord.query.filter(student_id == .., month == .., year == ..)
MonthFeeRecords(records, student_id, month, year) ==
    {f \in records : /\ f.student_id = student_id
                     /\ extract_month(f.date_paid) = month
                     /\ extract_year(f.date_paid) = year}

\* the classification collect_fee stores
collect_fee_status(total_paid, fee) ==
    IF total_paid >= fee THEN "paid"
    ELSE IF total_paid > 0 THEN "partial"
    ELSE "unpaid"

\* Student.computed_fee_status with datetime.now() = now
computed_fee_status(student, now) ==
    LET total_paid == SumAmounts(MonthFeeRecords(fee_records, student.id,
                                                 extract_month(now),
                                                 extract_year(now)))
    IN  IF total_paid = 0 THEN "unpaid"
        ELSE IF total_paid < student.fee THEN "partial"
        ELSE "paid"

\* Student.remaining_fee with datetime.now() = now
SetMax2(a, b) == IF a >= b THEN a ELSE b

\* a remainder that counts the student's payments of every month
remaining_fee_AllMonths(student, now) ==
    SetMax2(0, student.fee
                 - SumAmounts({f \in fee_records : f.student_id = student.id}))

remaining_fee(student, now) ==
    LET total_paid == SumAmounts(MonthFeeRecords(fee_records, student.id,
                                                 extract_month(now),
                                                 extract_year(now)))
    IN  SetMax2(0, student.fee - total_paid)

(***************************************************************************)
(* POST /collect-fee.  An amount is a JSON number ("num"), a string that   *)
(* float() accepts ("numstr"), another string ("str") or absent            *)
(* ("missing"); v is its numeric value.                                    *)
(***************************************************************************)
AmountFalsy(a) == a.kind = "missing" \/ (a.kind = "num" /\ a.v = 0)

\* the row the handler adds to the session
NewFeeRecord(data) ==
    [id |-> NextId(fee_records), student_id |-> data.student_id,
     amount |-> data.amount.v, date_paid |-> strptime(data.date),
     month_year |-> strftime_Ym(strptime(data.date))]

\* a status computed before the new payment is flushed
collect_fee_student_Stale(student, data, staged) ==
    LET d == strptime(data.date)
        total_paid == SumAmounts(MonthFeeRecords(fee_records, data.student_id,
                                                 extract_month(d), extract_year(d)))
    IN  [student EXCEPT !.fee_status = collect_fee_status(total_paid, student.fee),
                        !.last_fee_payment = d]

\* the student row as the handler leaves it; staged holds the flushed row
collect_fee_student(student, data, staged) ==
    LET d == strptime(data.date)
        total_paid == SumAmounts(MonthFeeRecords(staged, data.student_id,
                                                 extract_month(d), extract_year(d)))
    IN  [student EXCEPT !.fee_status = collect_fee_status(total_paid, student.fee),
                        !.last_fee_payment = d]

\* where the handler stops: "required" (400), an exception (500, rollback)
\* or "ok" (commit)
collect_fee_outcome(data) ==
    IF data.student_id = 0 \/ AmountFalsy(data.amount) \/ data.date = ""
    THEN "required"
    ELSE IF ~strptime_ok(data.date) THEN "bad_date"
    \* autoflush before the student lookup binds the amount with float()
    ELSE IF data.amount.kind = "str" THEN "flush_error"
    \* sum() over the session's rows meets the string still held by the new one
    ELSE IF StudentExists(data.student_id) /\ data.amount.kind = "numstr"
    THEN "type_error"
    ELSE "ok"

collect_fee_commit(data) ==
    LET staged == fee_records \cup {NewFeeRecord(data)} IN
    /\ fee_records' = staged
    /\ students' = IF StudentExists(data.student_id)
                   THEN (students \ {StudentGet(data.student_id)})
                        \cup {collect_fee_student(StudentGet(data.student_id),
                                                  data, staged)}
                   ELSE students

collect_fee(data) ==
    LET o == collect_fee_outcome(data) IN
    /\ UNCHANGED <<in_flight, registrations>>
    /\ request' = Req("collect_fee", 0, data)
    /\ IF o = "ok"
       THEN /\ collect_fee_commit(data)
            /\ response' = Resp("collect_fee", 200, "ok")
       ELSE /\ UNCHANGED <<students, fee_records>>
            /\ response' = Resp("collect_fee", IF o = "required" THEN 400 ELSE 500, o)
    /\ UNCHANGED <<rooms, employees, salary_records, expenses, current_user>>

(***************************************************************************)
(* Session: POST /login and POST /logout.  The admin table is filled       *)
(* outside the program; admin ids are 1..NumAdmins.  The request names the *)
(* admin whose credentials it carries, 0 for credentials that match none.  *)
(***************************************************************************)
Admins == 1..NumAdmins

api_login(admin_id) ==
    /\ UNCHANGED <<in_flight, registrations>>
    /\ request' = Req("api_login", admin_id, None)
    /\ IF admin_id \in Admins
       THEN /\ current_user' = admin_id
            /\ response' = Resp("api_login", 200, "ok")
       ELSE /\ current_user' = current_user
            /\ response' = Resp("api_login", 401, "invalid_credentials")
    /\ UNCHANGED <<rooms, students, fee_records, employees, salary_records, expenses>>

logout ==
    /\ UNCHANGED <<in_flight, registrations>>
    /\ request' = Req("logout", 0, None)
    /\ IF Authenticated
       THEN /\ current_user' = Anonymous
            /\ response' = Resp("logout", 200, "ok")
       ELSE /\ current_user' = current_user
            /\ response' = Resp("logout", 302, "login_required")
    /\ UNCHANGED <<rooms, students, fee_records, employees, salary_records, expenses>>

(***************************************************************************)
(* Employees.  Of an employee the model keeps name, position, base_salary  *)
(* and status; of a salary record employee_id, month_year and amount_paid. *)
(***************************************************************************)
EmployeeExists(employee_id) == \E e \in employees : e.id = employee_id
EmployeeGet(employee_id) == CHOOSE e \in employees : e.id = employee_id

add_employee(data) ==
    /\ UNCHANGED <<in_flight, registrations>>
    /\ request' = Req("add_employee", 0, data)
    /\ IF {"name", "position", "base_salary"} \subseteq data.keys
       THEN /\ employees' = employees \cup
                   {[id |-> NextId(employees), name |-> data.name,
                     position |-> data.position, base_salary |-> data.base_salary,
                     status |-> "active"]}
            /\ response' = Resp("add_employee", 200, "ok")
       ELSE /\ employees' = employees
            /\ response' = Resp("add_employee", 400, "required")
    /\ UNCHANGED <<rooms, students, fee_records, salary_records, expenses, current_user>>

update_employee(employee_id, data) ==
    /\ UNCHANGED <<in_flight, registrations>>
    /\ request' = Req("update_employee", employee_id, data)
    /\ IF EmployeeExists(employee_id)
       THEN /\ employees' = (employees \ {EmployeeGet(employee_id)}) \cup
                   {[EmployeeGet(employee_id) EXCEPT
                       !.name = IF "name" \in data.keys THEN data.name ELSE @,
                       !.position = IF "position" \in data.keys
                                    THEN data.position ELSE @,
                       !.base_salary = IF "base_salary" \in data.keys
                                       THEN data.base_salary ELSE @,
                       !.status = IF "status" \in data.keys THEN data.status ELSE @]}
            /\ response' = Resp("update_employee", 200, "ok")
       ELSE /\ employees' = employees
            /\ response' = Resp("update_employee", 500, "not_found")
    /\ UNCHANGED <<rooms, students, fee_records, salary_records, expenses, current_user>>

\* a handler that deletes the employee and leaves its records behind
EmployeeSalaryRecords_None(employee_id) == {}

\* SalaryRecord.query.filter_by(employee_id=employee_id).all()
EmployeeSalaryRecords(employee_id) ==
    {r \in salary_records : r.employee_id = employee_id}

delete_employee(employee_id) ==
    /\ UNCHANGED <<in_flight, registrations>>
    /\ request' = Req("delete_employee", employee_id, None)
    /\ IF EmployeeExists(employee_id)
       THEN /\ salary_records' = salary_records \ EmployeeSalaryRecords(employee_id)
            /\ employees' = employees \ {EmployeeGet(employee_id)}
            /\ response' = Resp("delete_employee", 200, "ok")
       ELSE /\ UNCHANGED <<employees, salary_records>>
            /\ response' = Resp("delete_employee", 500, "not_found")
    /\ UNCHANGED <<rooms, students, fee_records, expenses, current_user>>

(***************************************************************************)
(* month_year strings of salary requests.                                  *)
(***************************************************************************)
MonthYearStrings == {"2024-01", "2024-02", "2024-1", "2024-13", "202401"}

\* s.split("-")
split_dash(s) ==
    CASE s = "2024-01" -> <<"2024", "01">>
      [] s = "2024-02" -> <<"2024", "02">>
      [] s = "2024-1" -> <<"2024", "1">>
      [] s = "2024-13" -> <<"2024", "13">>
      [] s = "202401" -> <<"202401">>

\* int(s)
int_of(s) ==
    CASE s = "2024" -> 2024
      [] s = "01" -> 1
      [] s = "1" -> 1
      [] s = "02" -> 2
      [] s = "13" -> 13
      [] s = "202401" -> 202401

\* year, month = s.split("-"); datetime(int(year), int(month), 1) raises
\* unless there are exactly two parts and the month is 1..12
expense_date_ok(s) ==
    /\ Len(split_dash(s)) = 2
    /\ int_of(split_dash(s)[2]) \in 1..12

expense_date(s) == <<int_of(split_dash(s)[1]), int_of(split_dash(s)[2]), 1>>

\* a description that leaves the position out
salary_expense_name_NoPosition(employee) == <<"Salary paid to", employee.name, "">>

\* f"Salary paid to {employee.name} ({employee.position})"
salary_expense_name(employee) == <<"Salary paid to", employee.name, employee.position>>

(***************************************************************************)
(* POST /api/employees/<id>/salaries                                       *)
(***************************************************************************)
\* a lookup that looks for the month alone among the records of nobody
existing_payment_NoEmployee(employee_id, month_year) ==
    {r \in salary_records : r.employee_id = Anonymous /\ r.month_year = month_year}

\* SalaryRecord.query.filter_by(employee_id, month_year).first()
existing_payment(employee_id, month_year) ==
    {r \in salary_records : r.employee_id = employee_id /\ r.month_year = month_year}

\* a handler that commits without reading the admin id
add_salary_payment_outcome_NoPrincipal(employee_id, data) ==
    IF ~EmployeeExists(employee_id) THEN "not_found"
    ELSE IF ~({"month_year", "amount_paid"} \subseteq data.keys) THEN "required"
    ELSE IF existing_payment(employee_id, data.month_year) # {} THEN "already_paid"
    ELSE IF ~expense_date_ok(data.month_year) THEN "bad_month_year"
    ELSE "ok"

add_salary_payment_outcome(employee_id, data) ==
    IF ~EmployeeExists(employee_id) THEN "not_found"
    ELSE IF ~({"month_year", "amount_paid"} \subseteq data.keys) THEN "required"
    ELSE IF existing_payment(employee_id, data.month_year) # {} THEN "already_paid"
    ELSE IF ~expense_date_ok(data.month_year) THEN "bad_month_year"
    ELSE IF ~Authenticated THEN "no_current_user"
    ELSE "ok"

add_salary_payment(employee_id, data) ==
    LET o == add_salary_payment_outcome(employee_id, data) IN
    /\ UNCHANGED <<in_flight, registrations>>
    /\ request' = Req("add_salary_payment", employee_id, data)
    /\ IF o = "ok"
       THEN /\ salary_records' = salary_records \cup
                   {[id |-> NextId(salary_records), employee_id |-> employee_id,
                     month_year |-> data.month_year, amount_paid |-> data.amount_paid]}
            /\ expenses' = expenses \cup
                   {[id |-> NextId(expenses),
                     item_name |-> salary_expense_name(EmployeeGet(employee_id)),
                     price |-> data.amount_paid,
                     date |-> expense_date(data.month_year),
                     user_id |-> current_user]}
            /\ response' = Resp("add_salary_payment", 200, "ok")
       ELSE /\ UNCHANGED <<salary_records, expenses>>
            /\ response' = Resp("add_salary_payment",
                                IF o \in {"required", "already_paid"} THEN 400 ELSE 500,
                                o)
    /\ UNCHANGED <<rooms, students, fee_records, employees, current_user>>

(***************************************************************************)
(* PUT and DELETE /api/salaries/<id>                                       *)
(***************************************************************************)
SalaryExists(salary_id) == \E r \in salary_records : r.id = salary_id
SalaryGet(salary_id) == CHOOSE r \in salary_records : r.id = salary_id

update_salary_payment(salary_id, data) ==
    /\ UNCHANGED <<in_flight, registrations>>
    /\ request' = Req("update_salary_payment", salary_id, data)
    /\ IF SalaryExists(salary_id)
       THEN /\ salary_records' = (salary_records \ {SalaryGet(salary_id)}) \cup
                   {[SalaryGet(salary_id) EXCEPT
                       !.amount_paid = IF "amount_paid" \in data.keys
                                       THEN data.amount_paid ELSE @]}
            /\ response' = Resp("update_salary_payment", 200, "ok")
       ELSE /\ salary_records' = salary_records
            /\ response' = Resp("update_salary_payment", 500, "not_found")
    /\ UNCHANGED <<rooms, students, fee_records, employees, expenses, current_user>>

\* Expense.query.filter_by(item_name, price, user_id)
corresponding_expenses(salary_record) ==
    {x \in expenses :
        /\ x.item_name = salary_expense_name(EmployeeGet(salary_record.employee_id))
        /\ x.price = salary_record.amount_paid
        /\ x.user_id = current_user}

\* .first(): the matching row of lowest rowid
first_expense(matching) == CHOOSE x \in matching : \A y \in matching : x.id <= y.id

delete_salary_payment(salary_id) ==
    /\ UNCHANGED <<in_flight, registrations>>
    /\ request' = Req("delete_salary_payment", salary_id, None)
    /\ IF ~SalaryExists(salary_id)
       THEN /\ UNCHANGED <<salary_records, expenses>>
            /\ response' = Resp("delete_salary_payment", 500, "not_found")
       ELSE IF ~Authenticated
       THEN /\ UNCHANGED <<salary_records, expenses>>
            /\ response' = Resp("delete_salary_payment", 500, "no_current_user")
       ELSE LET matching == corresponding_expenses(SalaryGet(salary_id)) IN
            /\ expenses' = IF matching # {}
                           THEN expenses \ {first_expense(matching)}
                           ELSE expenses
            /\ salary_records' = salary_records \ {SalaryGet(salary_id)}
            /\ response' = Resp("delete_salary_payment", 200, "ok")
    /\ UNCHANGED <<rooms, students, fee_records, employees, current_user>>

(***************************************************************************)
(* Registration requests: the public intake form and its admin workflow.   *)
(* Of a registration the model keeps email, status, admin_notes,           *)
(* contacted_at and contacted_by; the nine other required columns are      *)
(* written once by the submission and never read by a handler.             *)
(***************************************************************************)
\* a column that holds NULL
Null == 0

required_fields ==
    {"name", "email", "phone", "address", "emergency_contact",
     "emergency_contact_name", "university", "course", "year_of_study",
     "expected_duration"}

valid_statuses == {"pending", "contacted", "approved", "rejected"}

RegistrationExists(registration_id) == \E g \in registrations : g.id = registration_id
RegistrationGet(registration_id) == CHOOSE g \in registrations : g.id = registration_id

\* data.keys: the fields the body carries with a truthy value
submit_registration_outcome(data) ==
    IF ~(required_fields \subseteq data.keys) THEN "missing_fields"
    ELSE IF \E g \in registrations : g.email = data.email THEN "email_exists"
    ELSE "ok"

\* POST /api/registration (public)
submit_registration(data) ==
    LET o == submit_registration_outcome(data) IN
    /\ request' = Req("submit_registration", 0, data)
    /\ IF o = "ok"
       THEN /\ registrations' = registrations \cup
                   {[id |-> NextId(registrations), email |-> data.email,
                     status |-> "pending", admin_notes |-> Null,
                     contacted_at |-> Null, contacted_by |-> Null]}
            /\ response' = Resp("submit_registration", 201, "ok")
       ELSE /\ registrations' = registrations
            /\ response' = Resp("submit_registration", 400, o)
    /\ UNCHANGED <<rooms, students, fee_records, employees, salary_records, expenses,
                   current_user, in_flight>>

\* a handler that writes whatever status the body carries
update_registration_status_outcome_AnyStatus(registration_id, data) ==
    IF ~Authenticated THEN "login_required"
    ELSE IF ~RegistrationExists(registration_id) THEN "not_found"
    ELSE "ok"

update_registration_status_outcome(registration_id, data) ==
    IF ~Authenticated THEN "login_required"
    ELSE IF ~RegistrationExists(registration_id) THEN "not_found"
    ELSE IF "status" \in data.keys /\ data.status \notin valid_statuses
         THEN "invalid_status"
    ELSE "ok"

\* a handler that stamps the contact on every status change
update_registration_staged_AlwaysStamp(registration, data, now) ==
    [registration EXCEPT
        !.status = IF "status" \in data.keys THEN data.status ELSE @,
        !.contacted_at = IF "status" \in data.keys THEN now ELSE @,
        !.contacted_by = IF "status" \in data.keys THEN current_user ELSE @,
        !.admin_notes = IF "admin_notes" \in data.keys THEN data.admin_notes ELSE @]

\* the registration as the handler leaves it in the session; now is
\* datetime.utcnow()
update_registration_staged(registration, data, now) ==
    [registration EXCEPT
        !.status = IF "status" \in data.keys THEN data.status ELSE @,
        !.contacted_at = IF "status" \in data.keys /\ data.status = "contacted"
                         THEN now ELSE @,
        !.contacted_by = IF "status" \in data.keys /\ data.status = "contacted"
                         THEN current_user ELSE @,
        !.admin_notes = IF "admin_notes" \in data.keys THEN data.admin_notes ELSE @]

\* PUT /api/admin/registrations/<id>
update_registration_status(registration_id, data, now) ==
    LET o == update_registration_status_outcome(registration_id, data) IN
    /\ request' = Req("update_registration_status", registration_id, data)
    /\ IF o = "ok"
       THEN /\ registrations' = (registrations \ {RegistrationGet(registration_id)}) \cup
                   {update_registration_staged(RegistrationGet(registration_id),
                                               data, now)}
            /\ response' = Resp("update_registration_status", 200, "ok")
       ELSE /\ registrations' = registrations
            /\ response' = Resp("update_registration_status",
                                CASE o = "login_required" -> 302
                                  [] o = "invalid_status" -> 400
                                  [] OTHER -> 500,
                                o)
    /\ UNCHANGED <<rooms, students, fee_records, employees, salary_records, expenses,
                   current_user, in_flight>>

\* DELETE /api/admin/registrations/<id>
delete_registration(registration_id) ==
    /\ request' = Req("delete_registration", registration_id, None)
    /\ IF ~Authenticated
       THEN /\ registrations' = registrations
            /\ response' = Resp("delete_registration", 302, "login_required")
       ELSE IF ~RegistrationExists(registration_id)
       THEN /\ registrations' = registrations
            /\ response' = Resp("delete_registration", 500, "not_found")
       ELSE /\ registrations' = registrations \ {RegistrationGet(registration_id)}
            /\ response' = Resp("delete_registration", 200, "ok")
    /\ UNCHANGED <<rooms, students, fee_records, employees, salary_records, expenses,
                   current_user, in_flight>>

(***************************************************************************)
(* Initial state: the schema as the migration creates it, every table      *)
(* empty but admin; nobody is logged in.                                   *)
(***************************************************************************)
Init ==
    /\ rooms = {}
    /\ students = {}
    /\ fee_records = {}
    /\ employees = {}
    /\ salary_records = {}
    /\ expenses = {}
    /\ current_user = Anonymous
    /\ request = Req("init", 0, None)
    /\ response = Resp("init", 0, "ok")
    /\ in_flight = {}
    /\ registrations = {}

(***************************************************************************)
(* Requests about registrations.                                           *)
(***************************************************************************)
RegistrationIdInputs == 1..(MaxRegistrationId + 1)
RegistrationSubmitInputs ==
    [keys : {required_fields, required_fields \ {"phone"}}, email : {"a@x", "b@x"}]
\* a field the body does not carry reads as the empty string
RegistrationUpdateInputs ==
    {[keys |-> k, status |-> IF "status" \in k THEN st ELSE "",
      admin_notes |-> IF "admin_notes" \in k THEN "note" ELSE ""] :
        k \in {{"status"}, {"admin_notes"}, {"status", "admin_notes"}},
        st \in {"contacted", "approved", "archived"}}
\* readings of the clock
ClockInputs == {1, 2}

RegistrationLogin == \E a \in Admins : api_login(a)

RegistrationSubmit ==
    \E data \in RegistrationSubmitInputs :
        /\ submit_registration_outcome(data) = "ok"
              => NextId(registrations) <= MaxRegistrationId
        /\ submit_registration(data)

RegistrationUpdate ==
    \E id \in RegistrationIdInputs, data \in RegistrationUpdateInputs,
       now \in ClockInputs :
        update_registration_status(id, data, now)

RegistrationDelete == \E id \in RegistrationIdInputs : delete_registration(id)

NextRegistration ==
    \/ RegistrationLogin
    \/ logout
    \/ RegistrationSubmit
    \/ RegistrationUpdate
    \/ RegistrationDelete

SpecRegistration == Init /\ [][NextRegistration]_vars

(***************************************************************************)
(* Start-ups and requests about employees.                                 *)
(***************************************************************************)
BootstrapEmployeeInputs ==
    [keys : {{"name", "position", "base_salary"}, {"name", "position"}},
     name : {"M Bilal", "Zed"}, position : {"Guard"}, base_salary : {1}]

\* the application starts (src/app.py:124, 1772)
BootstrapRun ==
    /\ \A e \in SeedEmployees(employees, 1) : e.id <= MaxEmployeeId
    /\ bootstrap_data

BootstrapAddEmployee ==
    \E data \in BootstrapEmployeeInputs :
        /\ NextId(employees) <= MaxEmployeeId
        /\ add_employee(data)

BootstrapUpdateEmployee ==
    \E id \in 1..MaxEmployeeId :
        update_employee(id, [keys |-> {"name", "position"}, name |-> "Zed",
                             position |-> "Chef", base_salary |-> 1,
                             status |-> "active"])

BootstrapDeleteEmployee == \E id \in 1..MaxEmployeeId : delete_employee(id)

NextBootstrap ==
    \/ BootstrapRun
    \/ BootstrapAddEmployee
    \/ BootstrapUpdateEmployee
    \/ BootstrapDeleteEmployee

SpecBootstrap == Init /\ [][NextBootstrap]_vars

(***************************************************************************)
(* Requests about rooms and placement.                                     *)
(***************************************************************************)
\* ids a request may name: the students there are and one id that is not there
StudentIdInputs == {s.id : s \in students} \cup {MaxStudentId + 1}
RoomIdInputs == {0, 1, 2, MaxRoomId + 1}
BulkRowInputs == [name : {"b"}, fee : {1}, room_id : {1, MaxRoomId + 1}]
BulkSheets == UNION {[1..n -> BulkRowInputs] : n \in 1..MaxRows}

\* PUT bodies: a room alone, a status alone
PlacementPutInputs ==
    {[keys |-> {"room_id"}, name |-> "a", fee |-> 1, room_id |-> r, status |-> "active"]
        : r \in {1, 2, MaxRoomId + 1}}
    \cup
    {[keys |-> {"status"}, name |-> "a", fee |-> 1, room_id |-> 1, status |-> "inactive"]}

PlacementPOST ==
    \E r \in RoomIdInputs :
        /\ NextId(students) <= MaxStudentId
        /\ api_students_POST([name |-> "a", fee |-> 1, room_id |-> r])

PlacementPUT ==
    \E id \in StudentIdInputs, data \in PlacementPutInputs :
        api_update_student_PUT(id, data)

PlacementDELETE == \E id \in StudentIdInputs : api_update_student_DELETE(id)

PlacementBulk ==
    \E rows \in BulkSheets :
        /\ NextId(students) + Len(rows) - 1 <= MaxStudentId
        /\ bulk_upload_students(rows)

PlacementLogin == api_login(1)

NextRooms ==
    \/ bootstrap_data
    \/ PlacementLogin
    \/ logout
    \/ PlacementPOST
    \/ PlacementPUT
    \/ PlacementDELETE
    \/ PlacementBulk
    \/ enroll_student

SpecRooms == Init /\ [][NextRooms]_vars

(***************************************************************************)
(* Properties of room placement, checked under SpecRooms.                  *)
(***************************************************************************)
\* the students assigned to room r, whatever their status
Occupants(r) == {s \in students : s.room_id = r}
OccupantsAfter(r) == {s \in students' : s.room_id = r}
RoomKnown(r) == \E x \in rooms : x.id = r
CapacityOf(r) == (CHOOSE x \in rooms : x.id = r).capacity
AtCapacity(r) == RoomKnown(r) /\ Cardinality(Occupants(r)) >= CapacityOf(r)
OccupancyUnchanged ==
    \A r \in {x.id : x \in rooms} :
        Cardinality(OccupantsAfter(r)) = Cardinality(Occupants(r))

\* C1: in every reachable state no room holds more students than its
\* capacity (requests served one at a time)
C1_CapacityNeverExceeded ==
    \A r \in rooms : Cardinality(Occupants(r.id)) <= r.capacity

\* a reassignment has just taken the last seat of a room
C1_Witness ==
    /\ request.op = "api_update_student_PUT"
    /\ response.code = 200
    /\ "room_id" \in request.data.keys
    /\ AtCapacity(request.data.room_id)
    /\ \E s \in students : s.name = "b"

\* C8: a creation request whose room id is outside 1..18, names no room or
\* names a room at capacity is rejected (400 outside the range or when
\* full, 404 only for an id in range without a room), writes no student row
\* and leaves every room's occupancy as it was
C8_BadRoomCreationRejected ==
    [][(request'.op = "api_students_POST"
        /\ LET r == request'.data.room_id IN
           r < 1 \/ r > 18 \/ ~RoomKnown(r) \/ AtCapacity(r))
       => /\ students' = students
          /\ OccupancyUnchanged
          /\ response'.code \in {400, 404}
          /\ LET r == request'.data.room_id IN
             /\ (r < 1 \/ r > 18) => response'.code = 400
             /\ (r >= 1 /\ r <= 18 /\ ~RoomKnown(r)) => response'.code = 404
             /\ (r >= 1 /\ r <= 18 /\ RoomKnown(r)) => response'.msg = "room_full"
      ]_vars

\* a fourth enrolment into a room of capacity 3 holding 3 has been rejected
C8_Witness ==
    /\ request.op = "api_students_POST"
    /\ response.code = 400
    /\ response.msg = "room_full"
    /\ RoomKnown(request.data.room_id)
    /\ CapacityOf(request.data.room_id) = 3
    /\ Cardinality(Occupants(request.data.room_id)) = 3

\* C9: the occupancy compared with the capacity counts every student of the
\* room whatever the status: a creation, a move from another room or a bulk
\* row into a room holding capacity-many students of any status places
\* nobody, and a status change leaves every room's occupancy as it was
C9_OccupancyIgnoresStatus ==
    [][/\ (request'.op = "api_students_POST" /\ AtCapacity(request'.data.room_id))
          => (students' = students /\ response'.code = 400)
       /\ (request'.op = "api_update_student_PUT"
           /\ "room_id" \in request'.data.keys
           /\ \E s \in students : s.id = request'.id /\ s.room_id # request'.data.room_id
           /\ AtCapacity(request'.data.room_id))
          => (students' = students /\ response'.code = 400)
       /\ (request'.op = "bulk_upload_students")
          => \A s \in students' \ students : ~AtCapacity(s.room_id)
       /\ (request'.op = "api_update_student_PUT"
           /\ request'.data.keys = {"status"})
          => OccupancyUnchanged
      ]_vars

\* a room filled only by inactive students has rejected a new student
C9_Witness ==
    /\ request.op = "api_students_POST"
    /\ response.msg = "room_full"
    /\ AtCapacity(request.data.room_id)
    /\ \A s \in Occupants(request.data.room_id) : s.status = "inactive"

\* C10: a PUT whose room_id is the room the student is already in succeeds,
\* also when that room is at capacity, and leaves every room's occupancy as
\* it was
C10_SameRoomIsNoOp ==
    [][(request'.op = "api_update_student_PUT"
        /\ "room_id" \in request'.data.keys
        /\ \E s \in students : s.id = request'.id /\ s.room_id = request'.data.room_id)
       => (response'.code = 200 /\ OccupancyUnchanged)
      ]_vars

\* a PUT naming the student's own room, which is at capacity, has succeeded
C10_Witness ==
    /\ request.op = "api_update_student_PUT"
    /\ request.data.keys = {"room_id"}
    /\ response.code = 200
    /\ \E s \in students : s.id = request.id /\ s.room_id = request.data.room_id
    /\ AtCapacity(request.data.room_id)
    /\ Cardinality(students) = Cardinality(Occupants(request.data.room_id))
    /\ \A s \in students : s.status = "inactive"

(***************************************************************************)
(* Requests about fees.                                                    *)
(***************************************************************************)
FeeDateInputs == {"2024-01-05", "2024-02-05", "2025-01-05", "05/01/2024"}

FeeAmountInputs ==
    {[kind |-> "num", v |-> n] : n \in {-1, 0, 1}}
    \cup {[kind |-> "numstr", v |-> 1], [kind |-> "str", v |-> 0]}

\* the students that pay: each is enrolled once, with a monthly fee of 2
PayerNames == {"a", "b"}

FeePOST ==
    \E n \in PayerNames :
        /\ \A s \in students : s.name # n
        /\ NextId(students) <= MaxStudentId
        /\ api_students_POST([name |-> n, fee |-> 2, room_id |-> 1])

FeePUT ==
    \E id \in {s.id : s \in students}, f \in {0} :
        api_update_student_PUT(id, [keys |-> {"fee"}, name |-> "a", fee |-> f,
                                    room_id |-> 1, status |-> "active"])

FeeCollect ==
    \E id \in StudentIdInputs, a \in FeeAmountInputs, d \in FeeDateInputs :
        /\ NextId(fee_records) <= MaxFeeRecordId
        /\ collect_fee([student_id |-> id, amount |-> a, date |-> d])

NextFees ==
    \/ bootstrap_data
    \/ FeePOST
    \/ FeePUT
    \/ FeeCollect

SpecFees == Init /\ [][NextFees]_vars

(***************************************************************************)
(* Properties of fee reconciliation, checked under SpecFees.               *)
(***************************************************************************)
FeeStatuses == {"unpaid", "partial", "paid"}
Months == {<<2024, 1>>, <<2024, 2>>, <<2025, 1>>}

\* what student sid has paid in the calendar month ym = <<year, month>>
PaidIn(records, sid, ym) ==
    SumAmounts({f \in records : f.student_id = sid
                                /\ <<f.date_paid[1], f.date_paid[2]>> = ym})

\* the thresholds: sum = 0 unpaid, 0 < sum < fee partial, sum >= fee paid
MeetsThresholds(status, total, fee) ==
    /\ status \in FeeStatuses
    /\ total = 0 => status = "unpaid"
    /\ (0 < total /\ total < fee) => status = "partial"
    /\ total >= fee => status = "paid"

\* C2 as stated: for every student, fee and month the computed status is one
\* of the three and follows the thresholds on the month's own payments
C2_StatusFollowsThresholds ==
    \A s \in students : \A ym \in Months :
        MeetsThresholds(computed_fee_status(s, <<ym[1], ym[2], 1>>),
                        PaidIn(fee_records, s.id, ym), s.fee)

\* C2 amended: the same for every student whose monthly fee is positive
C2_StatusFollowsThresholdsPositiveFee ==
    \A s \in students : \A ym \in Months :
        s.fee > 0 =>
            MeetsThresholds(computed_fee_status(s, <<ym[1], ym[2], 1>>),
                            PaidIn(fee_records, s.id, ym), s.fee)

\* a student is partial for January 2024 while holding a payment of another
\* January
C2_Witness ==
    \E s \in students :
        /\ s.fee > 0
        /\ PaidIn(fee_records, s.id, <<2024, 1>>) = 1
        /\ PaidIn(fee_records, s.id, <<2025, 1>>) = 1
        /\ computed_fee_status(s, <<2024, 1, 1>>) = "partial"

\* C3: a successful collect_fee for an existing student with date D stores
\* on the student the classification (paid if total >= fee, else partial if
\* total > 0, else unpaid when total = 0) of the student's payments of D's
\* month, the new payment included, and sets last_fee_payment to D
C3_CollectStoresStatus ==
    [][(request'.op = "collect_fee" /\ response'.code = 200
        /\ \E s \in students : s.id = request'.data.student_id)
       => \E t \in students' :
            LET d == strptime(request'.data.date)
                total == PaidIn(fee_records, t.id, <<d[1], d[2]>>)
                         + request'.data.amount.v
            IN  /\ t.id = request'.data.student_id
                /\ t.last_fee_payment = d
                /\ t.fee_status \in FeeStatuses
                /\ total >= t.fee => t.fee_status = "paid"
                /\ (total < t.fee /\ total > 0) => t.fee_status = "partial"
                /\ (total < t.fee /\ total = 0) => t.fee_status = "unpaid"
      ]_vars

\* the second payment of a month has made the student paid
C3_Witness ==
    /\ request.op = "collect_fee"
    /\ response.code = 200
    /\ \E s \in students :
         /\ s.id = request.data.student_id
         /\ s.fee = 2
         /\ s.fee_status = "paid"
         /\ s.last_fee_payment = strptime(request.data.date)
         /\ Cardinality({f \in fee_records :
                           f.student_id = s.id /\ f.amount = 1
                           /\ f.date_paid = s.last_fee_payment}) = 2

\* C5 as stated: collect_fee for a student id that matches no student answers
\* not-found and changes nothing (taken on requests that are valid but for
\* the id: a positive amount and a well-formed date)
C5_UnknownStudentNoMutation ==
    [][(request'.op = "collect_fee"
        /\ request'.data.amount.kind = "num" /\ request'.data.amount.v > 0
        /\ strptime_ok(request'.data.date)
        /\ request'.data.student_id # 0
        /\ ~\E s \in students : s.id = request'.data.student_id)
       => /\ fee_records' = fee_records
          /\ students' = students
          /\ response'.code = 404
      ]_vars

\* C6 as stated: collect_fee persists nothing when the amount is not a
\* number, zero or negative (taken on requests for an existing student)
C6_BadAmountRejected ==
    [][(request'.op = "collect_fee"
        /\ \E s \in students : s.id = request'.data.student_id
        /\ \/ request'.data.amount.kind \in {"str", "missing"}
           \/ (request'.data.amount.kind = "num" /\ request'.data.amount.v <= 0))
       => /\ fee_records' = fee_records
          /\ students' = students
          /\ response'.code # 200
      ]_vars

\* C7 as stated: every collect_fee either persists nothing, or persists the
\* new FeeRecord together with the student's status and last_fee_payment
\* (taken on requests with a positive amount)
C7_PaymentAndStatusAtomic ==
    [][(request'.op = "collect_fee"
        /\ request'.data.amount.kind = "num" /\ request'.data.amount.v > 0)
       => \/ fee_records' = fee_records /\ students' = students
          \/ /\ \E f \in fee_records' \ fee_records :
                   f.student_id = request'.data.student_id
             /\ \E t \in students' :
                   /\ t.id = request'.data.student_id
                   /\ t.last_fee_payment = strptime(request'.data.date)
                   /\ t.fee_status =
                        collect_fee_status(
                            PaidIn(fee_records', t.id,
                                   <<t.last_fee_payment[1], t.last_fee_payment[2]>>),
                            t.fee)
      ]_vars

(***************************************************************************)
(* Requests about employees and salaries.                                  *)
(***************************************************************************)
EmployeeIdInputs == {1, MaxEmployeeId + 1}
SalaryIdInputs == {r.id : r \in salary_records} \cup {MaxSalaryId + 1}
SalaryMonthInputs == {"2024-01", "2024-02", "202401"}

SalaryLogin == api_login(1)

SalaryAddEmployee ==
    \E k \in {{"name", "position", "base_salary"}} :
        /\ NextId(employees) <= MaxEmployeeId
        /\ add_employee([keys |-> k, name |-> "Zed", position |-> "Guard",
                         base_salary |-> 1])

SalaryUpdateEmployee ==
    \E id \in EmployeeIdInputs :
        update_employee(id, [keys |-> {"position"}, name |-> "Zed",
                             position |-> "Chef", base_salary |-> 1,
                             status |-> "active"])

SalaryDeleteEmployee == \E id \in EmployeeIdInputs : delete_employee(id)

SalaryAdd ==
    \E id \in EmployeeIdInputs, m \in SalaryMonthInputs, a \in {1},
       k \in {{"month_year", "amount_paid"}, {"month_year"}} :
        LET data == [keys |-> k, month_year |-> m, amount_paid |-> a] IN
        /\ add_salary_payment_outcome(id, data) = "ok"
              => (NextId(salary_records) <= MaxSalaryId /\ NextId(expenses) <= MaxExpenseId)
        /\ add_salary_payment(id, data)

SalaryUpdate ==
    \E id \in SalaryIdInputs :
        update_salary_payment(id, [keys |-> {"amount_paid"}, amount_paid |-> 2])

SalaryDelete == \E id \in SalaryIdInputs : delete_salary_payment(id)

NextSalary ==
    \/ bootstrap_data
    \/ SalaryLogin
    \/ logout
    \/ SalaryUpdateEmployee
    \/ SalaryDeleteEmployee
    \/ SalaryAdd
    \/ SalaryUpdate
    \/ SalaryDelete

SpecSalary == Init /\ [][NextSalary]_vars

(***************************************************************************)
(* Salary payments: one record per (employee, month_year).                 *)
(***************************************************************************)
PaymentsFor(records, employee_id, month_year) ==
    {r \in records : r.employee_id = employee_id /\ r.month_year = month_year}

AtMostOnePaymentPerPair(records) ==
    \A r1, r2 \in records :
        (r1.employee_id = r2.employee_id /\ r1.month_year = r2.month_year) => r1 = r2

\* C4: a request to record a salary payment (both required fields given) for
\* an employee and a month_year string that already have a record is answered
\* 400 "Salary already paid for this month" and leaves the salary records and
\* the expenses as they were; and after every add, update or delete of a
\* salary payment (and every other request) no two salary records have the
\* same employee and the same month_year.
C4_SecondPaymentRejected ==
    [][/\ AtMostOnePaymentPerPair(salary_records')
       /\ (/\ request'.op = "add_salary_payment"
           /\ {"month_year", "amount_paid"} \subseteq request'.data.keys
           /\ PaymentsFor(salary_records, request'.id, request'.data.month_year) # {})
          => /\ response'.code = 400
             /\ response'.msg = "already_paid"
             /\ salary_records' = salary_records
             /\ expenses' = expenses]_vars

\* a second payment for employee 1 and "2024-01" has just been refused, after
\* a payment for another month string was recorded and the first was updated
C4_Witness ==
    /\ request.op = "add_salary_payment"
    /\ response.msg = "already_paid"
    /\ Cardinality(PaymentsFor(salary_records, request.id, request.data.month_year)) = 1
    /\ Cardinality(salary_records) = 2
    /\ \E r \in salary_records : r.amount_paid = 2

(***************************************************************************)
(* Requests served concurrently.  Each request runs in its own thread with *)
(* its own session; what it has read stays in its session while other      *)
(* requests commit.  in_flight holds the requests that have run their      *)
(* reads and checks and have not yet committed.                            *)
(***************************************************************************)
Clients == 1..MaxInFlight

Busy(c) == \E r \in in_flight : r.client = c

\* POST /api/employees/<id>/salaries up to the existence check
add_salary_payment_checks(employee_id, data) ==
    IF ~EmployeeExists(employee_id) THEN "not_found"
    ELSE IF ~({"month_year", "amount_paid"} \subseteq data.keys) THEN "required"
    ELSE IF existing_payment(employee_id, data.month_year) # {} THEN "already_paid"
    ELSE "passed"

\* the request returns from its checks, or goes on holding the employee it
\* loaded and the user of its session
add_salary_payment_check(c, employee_id, data) ==
    /\ ~Busy(c)
    /\ IF add_salary_payment_checks(employee_id, data) # "passed"
       THEN add_salary_payment(employee_id, data)
       ELSE /\ in_flight' = in_flight \cup
                   {[client |-> c, op |-> "add_salary_payment", id |-> employee_id,
                     data |-> data, loaded |-> EmployeeGet(employee_id),
                     user |-> current_user]}
            /\ request' = Req("add_salary_payment", employee_id, data)
            /\ UNCHANGED <<rooms, students, fee_records, employees, salary_records,
                           expenses, current_user, response, registrations>>

\* a commit that looks the pair up once more before it inserts
add_salary_payment_rest_Rechecked(r) ==
    IF existing_payment(r.id, r.data.month_year) # {} THEN "already_paid"
    ELSE IF ~expense_date_ok(r.data.month_year) THEN "bad_month_year"
    ELSE IF r.user = Anonymous THEN "no_current_user"
    ELSE "ok"

\* the rest of the handler: split, datetime(...), current_user.id, commit
add_salary_payment_rest(r) ==
    IF ~expense_date_ok(r.data.month_year) THEN "bad_month_year"
    ELSE IF r.user = Anonymous THEN "no_current_user"
    ELSE "ok"

add_salary_payment_commit(c) ==
    \E r \in in_flight :
        /\ r.client = c
        /\ r.op = "add_salary_payment"
        /\ in_flight' = in_flight \ {r}
        /\ UNCHANGED registrations
        /\ request' = Req("add_salary_payment", r.id, r.data)
        /\ IF add_salary_payment_rest(r) = "ok"
           THEN /\ salary_records' = salary_records \cup
                       {[id |-> NextId(salary_records), employee_id |-> r.id,
                         month_year |-> r.data.month_year,
                         amount_paid |-> r.data.amount_paid]}
                /\ expenses' = expenses \cup
                       {[id |-> NextId(expenses),
                         item_name |-> salary_expense_name(r.loaded),
                         price |-> r.data.amount_paid,
                         date |-> expense_date(r.data.month_year),
                         user_id |-> r.user]}
                /\ response' = Resp("add_salary_payment", 200, "ok")
           ELSE /\ UNCHANGED <<salary_records, expenses>>
                /\ response' = Resp("add_salary_payment", 500, add_salary_payment_rest(r))
        /\ UNCHANGED <<rooms, students, fee_records, employees, current_user>>

RaceSalaryCheck ==
    \E c \in Clients, id \in EmployeeIdInputs, m \in {"2024-01", "202401"},
       k \in {{"month_year", "amount_paid"}, {"month_year"}} :
        add_salary_payment_check(c, id, [keys |-> k, month_year |-> m, amount_paid |-> 1])

RaceSalaryCommit ==
    \E c \in Clients :
        /\ \A r \in in_flight :
              (r.client = c /\ add_salary_payment_rest(r) = "ok")
                  => (NextId(salary_records) <= MaxSalaryId /\ NextId(expenses) <= MaxExpenseId)
        /\ add_salary_payment_commit(c)

NextSalaryRace ==
    \/ bootstrap_data
    \/ SalaryLogin
    \/ logout
    \/ SalaryUpdateEmployee
    \/ RaceSalaryCheck
    \/ RaceSalaryCommit
    \/ SalaryDelete

SpecSalaryRace == Init /\ [][NextSalaryRace]_vars

\* C11: a request to record a salary payment that has passed the existence
\* check inserts its SalaryRecord and its Expense when it commits (its month
\* string being well formed and its session authenticated), whatever other
\* requests have committed for the same pair since its check; so two
\* requests that both ran the check before either committed both insert
C11_BothPassBothInsert ==
    [][\A r \in in_flight \ in_flight' :
          (/\ r.op = "add_salary_payment"
           /\ expense_date_ok(r.data.month_year)
           /\ r.user # Anonymous)
          => /\ response'.code = 200
             /\ Cardinality(PaymentsFor(salary_records', r.id, r.data.month_year))
                  = Cardinality(PaymentsFor(salary_records, r.id, r.data.month_year)) + 1
             /\ Cardinality(expenses') = Cardinality(expenses) + 1]_vars

\* two salary records and two salary expenses exist for employee 1 and
\* "2024-01", and the second request has just committed
C11_Witness ==
    /\ request.op = "add_salary_payment"
    /\ response.code = 200
    /\ in_flight = {}
    /\ Cardinality(PaymentsFor(salary_records, 1, "2024-01")) = 2
    /\ Cardinality({x \in expenses : x.date = <<2024, 1, 1>>}) = 2

(***************************************************************************)
(* Placement requests served concurrently.                                 *)
(***************************************************************************)
\* POST /api/students up to the capacity check; a request that passes holds
\* the room it loaded
api_students_POST_check(c, data) ==
    /\ ~Busy(c)
    /\ IF api_students_POST_outcome(data).code # 201
       THEN api_students_POST(data)
       ELSE /\ in_flight' = in_flight \cup
                   {[client |-> c, op |-> "api_students_POST", id |-> 0,
                     data |-> data, loaded |-> RoomGet(data.room_id),
                     user |-> current_user]}
            /\ request' = Req("api_students_POST", 0, data)
            /\ UNCHANGED <<rooms, students, fee_records, employees, salary_records,
                           expenses, current_user, response, registrations>>

\* PUT /api/students/<id> up to the last check; a request that passes holds
\* the student it loaded
api_update_student_PUT_check(c, student_id, data) ==
    /\ ~Busy(c)
    /\ IF api_update_student_PUT_outcome(student_id, data).code # 200
       THEN api_update_student_PUT(student_id, data)
       ELSE /\ in_flight' = in_flight \cup
                   {[client |-> c, op |-> "api_update_student_PUT", id |-> student_id,
                     data |-> data, loaded |-> StudentGet(student_id),
                     user |-> current_user]}
            /\ request' = Req("api_update_student_PUT", student_id, data)
            /\ UNCHANGED <<rooms, students, fee_records, employees, salary_records,
                           expenses, current_user, response, registrations>>

\* a commit that counts the room once more before it writes
placement_rest_Rechecked(r) ==
    IF r.op = "api_update_student_PUT" /\ ~StudentExists(r.id) THEN "stale"
    ELSE IF RoomIsFull(r.data.room_id) THEN "room_full"
    ELSE "ok"

\* db.session.commit(): the INSERT always goes through; the UPDATE fails
\* when the student's row is gone
placement_rest(r) ==
    IF r.op = "api_update_student_PUT" /\ ~StudentExists(r.id) THEN "stale"
    ELSE "ok"

\* the row as the UPDATE leaves it: the columns the handler changed on the
\* student it loaded are written, the others keep what the table holds
api_update_student_flushed(row, loaded, data) ==
    LET staged == api_update_student_staged(loaded, data) IN
    [row EXCEPT
        !.name = IF staged.name # loaded.name THEN staged.name ELSE @,
        !.fee = IF staged.fee # loaded.fee THEN staged.fee ELSE @,
        !.room_id = IF staged.room_id # loaded.room_id THEN staged.room_id ELSE @,
        !.status = IF staged.status # loaded.status THEN staged.status ELSE @]

placement_commit(c) ==
    \E r \in in_flight :
        /\ r.client = c
        /\ r.op \in {"api_students_POST", "api_update_student_PUT"}
        /\ in_flight' = in_flight \ {r}
        /\ UNCHANGED registrations
        /\ request' = Req(r.op, r.id, r.data)
        /\ IF placement_rest(r) # "ok"
           THEN /\ students' = students
                /\ response' = Resp("api_update_student", 500, placement_rest(r))
           ELSE IF r.op = "api_students_POST"
           THEN /\ students' = students \cup
                       {NewStudent(r.data.name, r.data.fee, r.data.room_id)}
                /\ response' = Resp("api_students", 201, "ok")
           ELSE /\ students' = (students \ {StudentGet(r.id)}) \cup
                       {api_update_student_flushed(StudentGet(r.id), r.loaded, r.data)}
                /\ response' = Resp("api_update_student", 200, "ok")
        /\ UNCHANGED <<rooms, fee_records, employees, salary_records, expenses,
                       current_user>>

RacePOST ==
    \E c \in Clients, r \in {1, 2} :
        api_students_POST_check(c, [name |-> "a", fee |-> 1, room_id |-> r])

RacePUT ==
    \E c \in Clients, id \in StudentIdInputs, r \in {1} :
        api_update_student_PUT_check(c, id,
            [keys |-> {"room_id"}, name |-> "", fee |-> 0, room_id |-> r,
             status |-> "active"])

RacePlacementCommit ==
    \E c \in Clients :
        /\ \A r \in in_flight :
              (r.client = c /\ r.op = "api_students_POST")
                  => NextId(students) <= MaxStudentId
        /\ placement_commit(c)

NextRoomsRace ==
    \/ bootstrap_data
    \/ RacePOST
    \/ RacePUT
    \/ RacePlacementCommit

SpecRoomsRace == Init /\ [][NextRoomsRace]_vars

\* C12: a placement request (creation or reassignment) that has passed the
\* capacity check places its student when it commits (a reassignment being
\* one that names another room than the student's, of a student still in
\* the table), however many students other requests have put into the room
\* since its check; so two requests that both counted one free seat before
\* either committed both commit
C12_BothPassBothCommit ==
    [][\A r \in in_flight \ in_flight' :
          (/\ r.op \in {"api_students_POST", "api_update_student_PUT"}
           /\ (r.op = "api_update_student_PUT"
                  => StudentExists(r.id) /\ r.loaded.room_id # r.data.room_id))
          => /\ response'.code \in {200, 201}
             /\ \E s \in students' :
                   /\ s.room_id = r.data.room_id
                   /\ s.id = IF r.op = "api_students_POST"
                             THEN NextId(students) ELSE r.id]_vars

\* room 1 holds more students than its capacity, a created student and a
\* moved student among them, right after the second of two commits
C12_Witness ==
    /\ RoomExists(1)
    /\ Cardinality(RoomStudents(1)) > RoomGet(1).capacity
    /\ request.op = "api_update_student_PUT"
    /\ response.code = 200
    /\ in_flight = {}
    /\ \E s \in RoomStudents(1) : s.id = MaxStudentId

(***************************************************************************)
(* Bulk import requests.                                                   *)
(***************************************************************************)
ImportRowInputs == [name : {"b", "c"}, fee : {0, 1}, room_id : {1}]
ImportSheets == UNION {[1..n -> ImportRowInputs] : n \in 1..MaxRows}

ImportBulk ==
    \E rows \in ImportSheets :
        /\ NextId(students) + Len(rows) - 1 <= MaxStudentId
        /\ bulk_upload_students(rows)

NextImport ==
    \/ bootstrap_data
    \/ PlacementLogin
    \/ logout
    \/ ImportBulk
    \/ PlacementPOST
    \/ PlacementDELETE

SpecImport == Init /\ [][NextImport]_vars

\* the i-th data row of the request carries an error in the response
RowReported(i) ==
    \E k \in 1..Len(response'.summary.errors) :
        response'.summary.errors[k].row_num = i + 1

\* how many of the first i data rows carry no error
RowsAcceptedUpTo(i) == Cardinality({j \in 1..i : ~RowReported(j)})

ImportAnswered ==
    /\ request'.op = "bulk_upload_students"
    /\ response'.code = 200

\* the data rows that are valid as the contract of the import has it: a
\* non-empty name that no student and no earlier row of the sheet has, a
\* positive fee, a room in 1..18 that exists and has a seat left after the
\* valid rows before it
RECURSIVE ValidRowsUpTo(_, _, _)
ValidRowsUpTo(studs, rows, i) ==
    IF i = 0 THEN {}
    ELSE LET prev == ValidRowsUpTo(studs, rows, i - 1)
             row == rows[i]
             taken == Cardinality({s \in studs : s.room_id = row.room_id})
                        + Cardinality({j \in prev : rows[j].room_id = row.room_id})
             valid == /\ row.name # ""
                      /\ ~\E j \in 1..(i - 1) : rows[j].name = row.name
                      /\ ~\E s \in studs : s.name = row.name
                      /\ row.fee > 0
                      /\ row.room_id \in MinRoomId..MaxRoomId
                      /\ \E r \in rooms : r.id = row.room_id /\ taken < r.capacity
         IN  IF valid THEN prev \cup {i} ELSE prev

ValidRows(studs, rows) == ValidRowsUpTo(studs, rows, Len(rows))

\* C13 as stated: a bulk import of N data rows of which K are invalid adds
\* exactly N - K students and reports exactly K errors, total_processed = N,
\* success_count = N - K, and the errors are labelled i + 1 for exactly the
\* invalid data rows i
C13_ImportCounts ==
    [][ImportAnswered =>
         LET rows == request'.data
             N == Len(rows)
             errs == response'.summary.errors
             K == N - Cardinality(ValidRows(students, rows))
         IN  /\ response'.summary.total_processed = N
             /\ response'.summary.success_count = N - K
             /\ Len(errs) = K
             /\ students \subseteq students'
             /\ Cardinality(students' \ students) = N - K
             /\ \A i \in 1..N : RowReported(i) <=> i \notin ValidRows(students, rows)]_vars

\* C14 as stated: in a bulk import every row whose name an earlier row of
\* the sheet has is reported as an error and adds no student, whether the
\* earlier row was accepted or not
C14_LaterOccurrenceRejected ==
    [][ImportAnswered =>
         LET rows == request'.data IN
         \A i \in 1..Len(rows) :
            (rows[i].name # "" /\ \E j \in 1..(i - 1) : rows[j].name = rows[i].name)
               => /\ RowReported(i)
                  /\ Cardinality({s \in students' \ students : s.name = rows[i].name}) <= 1
                  /\ (\A j \in 1..(i - 1) : rows[j].name = rows[i].name => RowReported(j))
                        => ~\E s \in students' \ students : s.name = rows[i].name]_vars

\* the student table when the loop reaches data row i: the table before the
\* request and the students the rows before i have committed
TableAtTurn(i) ==
    students \cup {s \in students' \ students :
                      s.id < NextId(students) + RowsAcceptedUpTo(i - 1)}

\* data row i passes validation at its turn: a non-empty name that no
\* earlier row and no student has, a positive fee, a room in 1..18 that
\* exists and has a seat left in the table as it is then
ValidAtTurn(rows, i) ==
    /\ rows[i].name # ""
    /\ ~\E j \in 1..(i - 1) : rows[j].name = rows[i].name
    /\ ~\E s \in TableAtTurn(i) : s.name = rows[i].name
    /\ rows[i].fee > 0
    /\ rows[i].room_id \in MinRoomId..MaxRoomId
    /\ \E r \in rooms :
          /\ r.id = rows[i].room_id
          /\ Cardinality({s \in TableAtTurn(i) : s.room_id = r.id}) < r.capacity

\* C15: a bulk import goes through every row of the sheet whatever rows
\* fail; a failing row is reported and takes no student away, and every row
\* that passes validation at its turn is committed, in row order, the rows
\* after a failing row included
C15_RowsIndependent ==
    [][ImportAnswered =>
         LET rows == request'.data
             N == Len(rows)
             errs == response'.summary.errors
         IN  /\ response'.summary.total_processed = N
             /\ response'.summary.success_count + Len(errs) = N
             /\ students \subseteq students'
             /\ Cardinality(students' \ students) = response'.summary.success_count
             /\ \A k \in 1..(Len(errs) - 1) : errs[k].row_num < errs[k + 1].row_num
             /\ \A i \in 1..N :
                   /\ ValidAtTurn(rows, i) => ~RowReported(i)
                   /\ ~RowReported(i) =>
                        \E s \in students' \ students :
                           /\ s.id = NextId(students) + RowsAcceptedUpTo(i) - 1
                           /\ s.name = rows[i].name
                           /\ s.fee = rows[i].fee
                           /\ s.room_id = rows[i].room_id]_vars

\* a sheet of two rows, the first with fee 0, has just been imported: the
\* error is labelled row 2 and the second row's student was still added,
\* next to a student that was there before
C15_Witness ==
    /\ request.op = "bulk_upload_students"
    /\ response.code = 200
    /\ Len(request.data) = 2
    /\ request.data[1].fee = 0
    /\ request.data[1].name # request.data[2].name
    /\ response.summary.total_processed = 2
    /\ response.summary.success_count = 1
    /\ Len(response.summary.errors) = 1
    /\ response.summary.errors[1].row_num = 2
    /\ \E s \in students : s.name = request.data[2].name
    /\ \E s \in students : s.name = "a"

(***************************************************************************)
(* Payments and the deletion of students.                                  *)
(***************************************************************************)
CascadeCollect ==
    \E id \in StudentIdInputs, d \in {"2024-01-05", "2024-02-05"} :
        /\ NextId(fee_records) <= MaxFeeRecordId
        /\ collect_fee([student_id |-> id, amount |-> [kind |-> "num", v |-> 1],
                        date |-> d])

NextCascade ==
    \/ bootstrap_data
    \/ FeePOST
    \/ CascadeCollect
    \/ PlacementDELETE

SpecCascade == Init /\ [][NextCascade]_vars

\* C16: a DELETE of an existing student removes the student's row and every
\* FeeRecord of that student id in the one step; afterwards no FeeRecord has
\* the deleted id, and the other students and the FeeRecords of other ids
\* are as they were
C16_DeleteCascades ==
    [][(request'.op = "api_update_student_DELETE"
        /\ \E s \in students : s.id = request'.id)
       => /\ response'.code = 200
          /\ ~\E s \in students' : s.id = request'.id
          /\ ~\E f \in fee_records' : f.student_id = request'.id
          /\ students' = {s \in students : s.id # request'.id}
          /\ fee_records' = {f \in fee_records : f.student_id # request'.id}]_vars

\* student 1 has just been deleted together with its payment, the first
\* ever recorded; the later payment of student 2 is still there
C16_Witness ==
    /\ request.op = "api_update_student_DELETE"
    /\ request.id = 1
    /\ response.code = 200
    /\ \E s \in students : s.id = 2 /\ s.last_fee_payment # NoDate
    /\ fee_records # {}
    /\ \A f \in fee_records : f.student_id = 2 /\ f.id = 2

(***************************************************************************)
(* Salary payments and their expenses.                                     *)
(***************************************************************************)
\* the year and month a well-formed month_year string names
PaidMonth(month_year) ==
    CASE month_year = "2024-01" -> <<2024, 1>>
      [] month_year = "2024-02" -> <<2024, 2>>
      [] month_year = "2024-1" -> <<2024, 1>>
      [] OTHER -> <<0, 0>>

\* C17: every request to record a salary payment either answers 200 and
\* adds exactly one SalaryRecord and exactly one Expense, the record for the
\* employee, month_year and amount of the request, the expense with that
\* amount as price, the description "Salary paid to <name> (<position>)" of
\* that employee and the first day of the paid month as date; or answers an
\* error and leaves both tables as they were
C17_RecordAndExpenseTogether ==
    [][request'.op = "add_salary_payment" =>
         \/ /\ response'.code # 200
            /\ salary_records' = salary_records
            /\ expenses' = expenses
         \/ /\ response'.code = 200
            /\ salary_records \subseteq salary_records'
            /\ expenses \subseteq expenses'
            /\ Cardinality(salary_records' \ salary_records) = 1
            /\ Cardinality(expenses' \ expenses) = 1
            /\ \A r \in salary_records' \ salary_records :
                  /\ r.employee_id = request'.id
                  /\ r.month_year = request'.data.month_year
                  /\ r.amount_paid = request'.data.amount_paid
            /\ \A x \in expenses' \ expenses :
                  /\ x.price = request'.data.amount_paid
                  /\ \E e \in employees :
                        /\ e.id = request'.id
                        /\ x.item_name = <<"Salary paid to", e.name, e.position>>
                  /\ x.date = <<PaidMonth(request'.data.month_year)[1],
                                PaidMonth(request'.data.month_year)[2], 1>>]_vars

\* the payment of employee 1 for "2024-02" has just been recorded after the
\* employee's position was changed: the ledger holds the salary expense
\* dated 1 February 2024 with the new position in its description
C17_Witness ==
    /\ request.op = "add_salary_payment"
    /\ request.id = 1
    /\ response.code = 200
    /\ \E r \in salary_records : r.employee_id = 1 /\ r.month_year = "2024-02"
    /\ \E x \in expenses :
          /\ x.date = <<2024, 2, 1>>
          /\ x.price = 1
          /\ x.item_name[3] = "Chef"

\* the salary record a DELETE names is the one the request before it recorded
JustRecorded(r) ==
    /\ request.op = "add_salary_payment"
    /\ response.code = 200
    /\ request'.op = "delete_salary_payment"
    /\ r.id = request'.id
    /\ r.employee_id = request.id
    /\ r.month_year = request.data.month_year
    /\ current_user # Anonymous

\* the expense the last successful add_salary_payment created: the newest
LatestExpense == CHOOSE x \in expenses : \A y \in expenses : y.id <= x.id

\* C18 as stated: when a salary payment is recorded and the next request, by
\* the same admin, deletes that record, the delete succeeds and removes the
\* record and the expense created with it, so that both tables are what
\* they were before the payment was recorded
C18_DeleteUndoesAdd ==
    [][\A r \in salary_records :
          JustRecorded(r)
             => /\ response'.code = 200
                /\ salary_records' = salary_records \ {r}
                /\ expenses' = expenses \ {LatestExpense}]_vars

(***************************************************************************)
(* The fee still owed for a month.                                         *)
(***************************************************************************)
RemainingMatches(s, ym) ==
    LET now == <<ym[1], ym[2], 1>>
        F == s.fee
        T == PaidIn(fee_records, s.id, ym)
    IN  /\ remaining_fee(s, now) = (IF F - T > 0 THEN F - T ELSE 0)
        /\ remaining_fee(s, now) = 0 <=> computed_fee_status(s, now) = "paid"
        /\ (0 < T /\ T < F) => /\ computed_fee_status(s, now) = "partial"
                               /\ remaining_fee(s, now) = F - T

\* C19 as stated: for every student, with monthly fee F and payments summing
\* to T in the month, remaining_fee is max(0, F - T), it is 0 exactly when
\* the status is paid, and for 0 < T < F the status is partial with F - T
\* remaining
C19_RemainingFee ==
    \A s \in students : \A ym \in Months : RemainingMatches(s, ym)

\* C19 amended: the same for every student whose monthly fee is positive
C19_RemainingFeePositiveFee ==
    \A s \in students : \A ym \in Months : s.fee > 0 => RemainingMatches(s, ym)

\* a student with fee 2 has paid 1 in January 2024 and 1 in February 2024:
\* partial with 1 remaining in each month
C19_Witness ==
    \E s \in students :
        /\ s.fee = 2
        /\ PaidIn(fee_records, s.id, <<2024, 1>>) = 1
        /\ PaidIn(fee_records, s.id, <<2024, 2>>) = 1
        /\ remaining_fee(s, <<2024, 1, 1>>) = 1
        /\ computed_fee_status(s, <<2024, 2, 1>>) = "partial"

(***************************************************************************)
(* Who may write.                                                          *)
(***************************************************************************)
Tables == <<rooms, students, fee_records, employees, salary_records, expenses>>

\* C20 as stated: a request of a caller without an authenticated session
\* (the start-up seeding is not a request) leaves every table as it was
C20_WritesNeedSession ==
    [][(current_user = Anonymous /\ request'.op # "bootstrap_data")
         => Tables' = Tables]_vars


(***************************************************************************)
(* Claims about registration requests.                                     *)
(***************************************************************************)
WorkflowStatuses == {"pending", "contacted", "approved", "rejected"}

\* the last request was an update whose body carries a status outside the
\* workflow
BadStatusUpdate(req) ==
    /\ req.op = "update_registration_status"
    /\ "status" \in req.data.keys
    /\ req.data.status \notin WorkflowStatuses

\* C21: every registration's status is pending, contacted, approved or
\* rejected after every step; a submission that is accepted adds a pending
\* registration; an update carrying any other status is refused and leaves
\* every registration as it was, admin_notes included.
C21_StatusInWorkflow ==
    [][/\ \A g \in registrations' : g.status \in WorkflowStatuses
       /\ (request'.op = "submit_registration" /\ response'.code = 201)
             => \E g \in registrations' \ registrations :
                    /\ g.status = "pending"
                    /\ registrations' = registrations \cup {g}
       /\ BadStatusUpdate(request')
             => /\ response'.code # 200
                /\ registrations' = registrations]_vars

\* an admin sent status "archived" together with admin_notes for a
\* registration that exists, and was refused
C21_Witness ==
    /\ BadStatusUpdate(request)
    /\ "admin_notes" \in request.data.keys
    /\ RegistrationExists(request.id)
    /\ Authenticated
    /\ response.code = 400
    /\ \E g \in registrations : g.status # "pending"


\* the last request was an accepted update that set the status of
\* registration id to contacted
ContactedBy(req, resp, id) ==
    /\ req.op = "update_registration_status"
    /\ resp.code = 200
    /\ req.id = id
    /\ "status" \in req.data.keys
    /\ req.data.status = "contacted"

\* C30: after every step a registration whose status is contacted has
\* contacted_at and contacted_by set; an accepted change to contacted stamps
\* the time and the admin who made it, and every other step, changes to
\* another status included, leaves both columns of every registration as
\* they were.
C30_ContactStamp ==
    [][/\ \A g \in registrations' :
            g.status = "contacted" => g.contacted_at # Null /\ g.contacted_by # Null
       /\ \A g \in registrations, h \in registrations' :
            g.id = h.id =>
                IF ContactedBy(request', response', g.id)
                THEN /\ h.contacted_by = current_user
                     /\ h.contacted_by \in Admins
                     /\ h.contacted_at \in ClockInputs
                ELSE /\ h.contacted_at = g.contacted_at
                     /\ h.contacted_by = g.contacted_by]_vars

\* admin 2 approved a registration that admin 1 had contacted, while another
\* registration stands contacted by admin 2
C30_Witness ==
    /\ request.op = "update_registration_status"
    /\ response.code = 200
    /\ request.data.keys = {"status"}
    /\ request.data.status = "approved"
    /\ current_user = 2
    /\ \E g \in registrations :
        /\ g.id = request.id
        /\ g.status = "approved"
        /\ g.contacted_by = 1
        /\ g.contacted_at # Null
    /\ \E g \in registrations : g.status = "contacted" /\ g.contacted_by = 2


(***************************************************************************)
(* Claims about the seeding at start-up.                                   *)
(***************************************************************************)
SeedNames == {"M Bilal", "Ishfaq Hussain", "Abdul Waheed"}

Named(es, n) == {e \in es : e.name = n}

\* C22: a run of bootstrap_data keeps every room and employee that exists
\* as it is, leaves exactly one room for each room_number 1..18 (capacity 3
\* for 1..14 and 4 for 15..18) and no other room, adds one employee for a
\* seed name that nobody bears and none for a seed name somebody bears, and
\* a run that follows a run changes nothing.
C22_BootstrapIdempotent ==
    [][request'.op = "bootstrap_data" =>
        /\ rooms \subseteq rooms'
        /\ employees \subseteq employees'
        /\ \A r \in rooms' : r.room_number \in 1..18
        /\ \A n \in 1..18 :
            /\ Cardinality({r \in rooms' : r.room_number = n}) = 1
            /\ \A r \in rooms' :
                r.room_number = n => r.capacity = IF n <= 14 THEN 3 ELSE 4
        /\ \A n \in SeedNames :
            Cardinality(Named(employees', n)) =
                IF Named(employees, n) = {} THEN 1
                ELSE Cardinality(Named(employees, n))
        /\ \A e \in employees' \ employees : e.name \in SeedNames
        /\ request.op = "bootstrap_data" => rooms' = rooms /\ employees' = employees
        /\ UNCHANGED <<students, fee_records, salary_records, expenses,
                       registrations>>]_vars

\* the application started when two employees added through the endpoint
\* already bore the first seed name: both were left as they were, no third
\* was added, and the two other seed employees were created
C22_Witness ==
    /\ request.op = "bootstrap_data"
    /\ Cardinality(rooms) = 18
    /\ Cardinality(Named(employees, "M Bilal")) = 2
    /\ \A e \in Named(employees, "M Bilal") : e.position = "Guard"
    /\ \E e \in Named(employees, "Ishfaq Hussain") : e.id = 3
    /\ \E e \in Named(employees, "Abdul Waheed") : e.id = 4


(***************************************************************************)
(* Claims about failures of a salary payment after the record was staged.  *)
(***************************************************************************)
\* the request got past the duplicate check, so that its SalaryRecord was
\* added to the session
StagedRecord(req) ==
    /\ req.op = "add_salary_payment"
    /\ EmployeeExists(req.id)
    /\ {"month_year", "amount_paid"} \subseteq req.data.keys
    /\ PaymentsFor(salary_records, req.id, req.data.month_year) = {}

\* what makes the handler raise after that: no "-" to split the month at,
\* or nobody logged in when current_user.id is read
FailsAfterStaging(req) ==
    \/ Len(split_dash(req.data.month_year)) # 2
    \/ current_user = Anonymous

\* C23: an add_salary_payment that raises after its SalaryRecord was staged
\* answers 500 and persists neither the record nor the expense, so the pair
\* still has no payment; and an add is refused as a duplicate only when a
\* payment for its pair is in the table.
C23_FailedAddRolledBack ==
    [][/\ (StagedRecord(request') /\ FailsAfterStaging(request')) =>
            /\ response'.code = 500
            /\ salary_records' = salary_records
            /\ expenses' = expenses
            /\ PaymentsFor(salary_records', request'.id,
                           request'.data.month_year) = {}
       /\ (request'.op = "add_salary_payment" /\ response'.msg = "already_paid") =>
            PaymentsFor(salary_records, request'.id,
                        request'.data.month_year) # {}]_vars

\* an anonymous payment for an existing employee and a well-formed month
\* failed while another payment is on record, and left the pair unpaid
C23_Witness ==
    /\ StagedRecord(request)
    /\ current_user = Anonymous
    /\ Len(split_dash(request.data.month_year)) = 2
    /\ response.code = 500
    /\ salary_records # {}
    /\ Cardinality(expenses) = Cardinality(salary_records)


(***************************************************************************)
(* Requests that edit a student and move it in one body.                   *)
(***************************************************************************)
EditMoveInputs ==
    [keys : {{"name", "fee", "room_id", "status"}}, name : {"z"}, fee : {5},
     room_id : {0, 1, 2, MaxRoomId + 1}, status : {"inactive"}]

EditMovePOST ==
    \E r \in {1, 2} :
        /\ NextId(students) <= MaxStudentId
        /\ api_students_POST([name |-> "a", fee |-> 1, room_id |-> r])

EditMovePUT ==
    \E id \in StudentIdInputs, data \in EditMoveInputs :
        api_update_student_PUT(id, data)

NextEditMove ==
    \/ bootstrap_data
    \/ EditMovePOST
    \/ EditMovePUT

SpecEditMove == Init /\ [][NextEditMove]_vars

(***************************************************************************)
(* Claims about a refused PUT /api/students/<id>.                          *)
(***************************************************************************)
\* why the PUT of req refuses the room it names for student s
RoomRefused(req, s) ==
    /\ "room_id" \in req.data.keys
    /\ \/ req.data.room_id < 1
       \/ req.data.room_id > 18
       \/ ~RoomKnown(req.data.room_id)
       \/ /\ s.room_id # req.data.room_id
          /\ AtCapacity(req.data.room_id)

\* C24: a PUT /api/students/<id> for an existing student whose destination
\* room is out of range, absent or full is answered 400 or 404 and leaves
\* the student table as it was: name, fee, room_id and status of the
\* student keep their values.
C24_RefusedPutPersistsNothing ==
    [][\A s \in students :
        (/\ request'.op = "api_update_student_PUT"
         /\ request'.id = s.id
         /\ RoomRefused(request', s)) =>
            /\ response'.code \in {400, 404}
            /\ s \in students'
            /\ students' = students]_vars

\* a PUT carrying a new name, fee and status was refused because the room
\* it names is full, while another student bears the name that an accepted
\* PUT with the same fields gave it
C24_Witness ==
    /\ request.op = "api_update_student_PUT"
    /\ request.data.keys = {"name", "fee", "room_id", "status"}
    /\ response.msg = "room_full"
    /\ \E s \in students :
        /\ s.id = request.id
        /\ s.name # request.data.name
        /\ s.fee # request.data.fee
        /\ s.room_id # request.data.room_id
    /\ \E s \in students : s.name = request.data.name


(***************************************************************************)
(* Claims about the two classifications of a month's payments.             *)
(***************************************************************************)
\* the last request was a collect_fee that was committed for an existing
\* student
Collected ==
    /\ request.op = "collect_fee"
    /\ response.code = 200
    /\ StudentExists(request.data.student_id)

\* C25: the status that collect_fee stores on the student equals the status
\* that computed_fee_status returns for the same student when the current
\* month is the month of the payment, whatever the fee and the month's
\* total, a fee of 0 and totals of 0 or below included.
C25_ClassifiersAgree ==
    Collected =>
        StudentGet(request.data.student_id).fee_status =
            computed_fee_status(StudentGet(request.data.student_id),
                                strptime(request.data.date))

\* the same for months whose total is positive
C25_ClassifiersAgreePositiveTotal ==
    (/\ Collected
     /\ PaidIn(fee_records, request.data.student_id,
               strftime_Ym(strptime(request.data.date))) > 0) =>
        StudentGet(request.data.student_id).fee_status =
            computed_fee_status(StudentGet(request.data.student_id),
                                strptime(request.data.date))


(***************************************************************************)
(* Claims about the status stored on the student.                          *)
(***************************************************************************)
\* the classification of the student's payments in the month of its last
\* payment, measured against the fee it has now
StatusOfLastMonth(s) ==
    IF s.last_fee_payment = NoDate THEN "unpaid"
    ELSE collect_fee_status(PaidIn(fee_records, s.id,
                                   <<s.last_fee_payment[1], s.last_fee_payment[2]>>),
                            s.fee)

\* C26: in every state the fee_status stored on each student is the
\* classification of its payments in the calendar month of last_fee_payment
\* against its current fee, and unpaid for a student without payment; a
\* change of the fee through PUT /api/students/<id> keeps it so.
C26_StoredStatusCurrent ==
    \A s \in students : s.fee_status = StatusOfLastMonth(s)


(***************************************************************************)
(* Claims about the ledger of salary expenses.                             *)
(***************************************************************************)
\* x is the expense of salary record r: it bears the name of r's employee
\* (with the position the employee had at some time), r's current amount
\* and the first day of r's month
ExpenseOf(r, x) ==
    /\ \E e \in employees :
        /\ e.id = r.employee_id
        /\ x.item_name[1] = "Salary paid to"
        /\ x.item_name[2] = e.name
    /\ x.price = r.amount_paid
    /\ x.date = <<PaidMonth(r.month_year)[1], PaidMonth(r.month_year)[2], 1>>

\* C27: in every state each SalaryRecord has exactly one expense bearing its
\* employee's description, its current amount_paid and its month, and every
\* salary expense of the ledger belongs to a SalaryRecord.
C27_LedgerMatchesRecords ==
    /\ \A r \in salary_records :
        Cardinality({x \in expenses : ExpenseOf(r, x)}) = 1
    /\ \A x \in expenses : \E r \in salary_records : ExpenseOf(r, x)

\* C28: when a delete_salary_payment succeeds on the payment of month M of
\* an employee who has a payment of the same amount for another month, both
\* recorded by the admin who deletes, the ledger loses the expense dated in
\* M and nothing else, so the other month's expense stays.
C28_DeleteRemovesOwnMonth ==
    [][\A r \in salary_records :
          (/\ request'.op = "delete_salary_payment"
           /\ request'.id = r.id
           /\ response'.code = 200
           /\ \E q \in salary_records :
                /\ q.employee_id = r.employee_id
                /\ q.amount_paid = r.amount_paid
                /\ q.month_year # r.month_year
                /\ \E x \in expenses : ExpenseOf(q, x) /\ x.user_id = current_user
           /\ \E x \in expenses : ExpenseOf(r, x) /\ x.user_id = current_user)
          => expenses' = {x \in expenses : ~ExpenseOf(r, x)}]_vars


(***************************************************************************)
(* Salary payments of several employees and deletions of employees, a      *)
(* payment being split at its existence check.                             *)
(***************************************************************************)
PayrollEmployeeInputs == {1, 2, MaxEmployeeId + 1}

\* the one start-up, on the empty database
PayrollStart ==
    /\ employees = {}
    /\ salary_records = {}
    /\ bootstrap_data

PayrollCheck ==
    \E id \in PayrollEmployeeInputs, m \in {"2024-01", "2024-02"} :
        add_salary_payment_check(1, id, [keys |-> {"month_year", "amount_paid"},
                                         month_year |-> m, amount_paid |-> 1])

PayrollDeleteEmployee == \E id \in PayrollEmployeeInputs : delete_employee(id)

NextPayroll ==
    \/ PayrollStart
    \/ SalaryLogin
    \/ PayrollCheck
    \/ RaceSalaryCommit
    \/ PayrollDeleteEmployee

SpecPayroll == Init /\ [][NextPayroll]_vars

\* the records that name no employee
Orphans(records, emps) == {r \in records : \A e \in emps : e.id # r.employee_id}

\* the step commits a payment whose employee was deleted after the payment's
\* existence check
StaleCommit ==
    \E q \in in_flight \ in_flight' :
        /\ q.op = "add_salary_payment"
        /\ \A e \in employees : e.id # q.id

====
